---- MODULE Spec2Model ----
(***************************************************************************)
(* The scope-tracking import resolver of rust_parser/parser.rs.            *)
(*                                                                         *)
(* The visitor (AstVisitor) walks a syntax tree depth first.  The tree is  *)
(* not fixed: every step picks the next node the walker meets, so every    *)
(* well-formed tree up to the bounds is a behaviour.  A leaf handler       *)
(* (use item, extern crate item, path) is one step.  A handler that        *)
(* recurses (block, module item, function item) is an Enter step, which    *)
(* runs the handler up to and including the visit of its attributes, and   *)
(* an Exit step, which runs its pop_scope; `open` is the walker's stack of *)
(* handlers that have entered and not yet exited.                          *)
(***************************************************************************)
EXTENDS Integers, Sequences, FiniteSets, TLC

\* How many block / module / function nodes may be open at once.
MaxDepth == 3
\* The same, for the files of SpecUse.
MaxUseDepth == 2
\* How many nodes a file of SpecFinite holds at most.
MaxNodes == 5

VARIABLES
  visitor,   \* the AstVisitor: imports, test_imports, mod_stack, scope_mods, hints
  open,      \* the walker's position: the open block/mod/fn nodes, outermost first
  last,      \* the node the last step visited; the exit of a scope records
             \* the names it declared, and a path visited right after it
             \* keeps them
  pc,        \* "visiting", "done" (parse_imports returned) or "panic"
  result,    \* the RustImports returned by parse_imports
  root_main, \* history: a function item named main stood directly in the file
  nodes      \* in SpecFinite, how many nodes of the file the walker has yet
             \* to reach; Spec and SpecUse bound the depth of a file only
             \* and leave it alone

vars == <<visitor, open, last, pc, result, root_main, nodes>>

----------------------------------------------------------------------------
(* Identifiers: a syn::Ident is its text, a sequence of characters.        *)

LowercaseChars ==
  {"a","b","c","d","e","f","g","h","i","j","k","l","m",
   "n","o","p","q","r","s","t","u","v","w","x","y","z"}

IdCrate     == <<"c","r","a","t","e">>
IdSelf      == <<"s","e","l","f">>
IdMain      == <<"m","a","i","n">>
IdTest      == <<"t","e","s","t">>
IdCfg       == <<"c","f","g">>
IdNot       == <<"n","o","t">>
IdProcMacro == <<"p","r","o","c","_","m","a","c","r","o">>

\* Names a file may use for crates, modules, types and renames; the
\* comments below write them a (IdLower), b (IdOther) and B (IdUpper).
IdLower == <<"a","B">>
IdOther == <<"b">>
IdUpper == <<"B","a">>
IdFn    == <<"f">>

----------------------------------------------------------------------------
(* Option<T> is the set of at most one value.                              *)

None == {}
Some(x) == {x}

UppercaseChars ==
  {"A","B","C","D","E","F","G","H","I","J","K","L","M",
   "N","O","P","Q","R","S","T","U","V","W","X","Y","Z"}

\* char::is_alphabetic in the place of char::is_lowercase
is_alphabetic(c) == c \in LowercaseChars \cup UppercaseChars

\* char::is_lowercase
is_lowercase(c) == c \in LowercaseChars

----------------------------------------------------------------------------
(* AstVisitor and its methods.  `self` is the visitor record.              *)

Scope(mods, is_test_only) == [mods |-> mods, is_test_only |-> is_test_only]

Hints == [has_main |-> FALSE, has_test |-> FALSE, has_proc_macro |-> FALSE]

AstVisitorDefault ==
  [imports      |-> {},
   test_imports |-> {},
   mod_stack    |-> <<Scope(<<>>, FALSE)>>,
   scope_mods   |-> {},
   hints        |-> Hints]

back(stack) == stack[Len(stack)]

\* is_root_scope that holds in every scope
is_root_scope_always(self) == TRUE

is_root_scope(self) == Len(self.mod_stack) = 1

is_test_only_scope(self) == back(self.mod_stack).is_test_only

\* add_import without the check of the Shadow Set
add_import_unshadowed(self, ident) ==
  IF ident = IdCrate THEN self
  ELSE IF is_test_only_scope(self)
       THEN [self EXCEPT !.test_imports = @ \cup {ident}]
       ELSE [self EXCEPT !.imports = @ \cup {ident}]

\* add_import that inserts an unshadowed name into both sets
add_import_both(self, ident) ==
  IF ident = IdCrate \/ ident \in self.scope_mods THEN self
  ELSE [self EXCEPT !.test_imports = @ \cup {ident}, !.imports = @ \cup {ident}]

\* add_import without the check for `crate`
add_import_crate(self, ident) ==
  IF ident \notin self.scope_mods
  THEN IF is_test_only_scope(self)
       THEN [self EXCEPT !.test_imports = @ \cup {ident}]
       ELSE [self EXCEPT !.imports = @ \cup {ident}]
  ELSE self

add_import(self, ident) ==
  IF ident = IdCrate THEN self
  ELSE IF ident \notin self.scope_mods
       THEN IF is_test_only_scope(self)
            THEN [self EXCEPT !.test_imports = @ \cup {ident}]
            ELSE [self EXCEPT !.imports = @ \cup {ident}]
       ELSE self

\* add_mod without the check of the Shadow Set
add_mod_always(self, ident) ==
  [self EXCEPT !.scope_mods = @ \cup {ident},
               !.mod_stack[Len(self.mod_stack)].mods = Append(@, ident)]

\* add_mod that looks for the name in the top frame's list only
add_mod_top(self, ident) ==
  IF ident \notin {self.mod_stack[Len(self.mod_stack)].mods[k] :
                     k \in DOMAIN self.mod_stack[Len(self.mod_stack)].mods}
  THEN [self EXCEPT !.scope_mods = @ \cup {ident},
                    !.mod_stack[Len(self.mod_stack)].mods = Append(@, ident)]
  ELSE self

\* add_mod that also withdraws the name from the import sets
add_mod_retroactive(self, ident) ==
  IF ident \notin self.scope_mods
  THEN [self EXCEPT !.scope_mods = @ \cup {ident},
                    !.mod_stack[Len(self.mod_stack)].mods = Append(@, ident),
                    !.imports = @ \ {ident},
                    !.test_imports = @ \ {ident}]
  ELSE self

add_mod(self, ident) ==
  IF ident \notin self.scope_mods
  THEN [self EXCEPT !.scope_mods = @ \cup {ident},
                    !.mod_stack[Len(self.mod_stack)].mods = Append(@, ident)]
  ELSE self

\* push_scope without the inheritance of the parent's flag
push_scope_own_flag(self, test) ==
  [self EXCEPT !.mod_stack = Append(@, Scope(<<>>, test))]

\* push_scope that pushes no frame
push_scope_none(self, test) == self

push_scope(self, test) ==
  LET current_test_only == back(self.mod_stack).is_test_only
  IN [self EXCEPT !.mod_stack = Append(@, Scope(<<>>, test \/ current_test_only))]

Range(s) == {s[i] : i \in DOMAIN s}

\* pop_scope that leaves the popped names in the Shadow Set
pop_scope_keep_mods(self) ==
  [self EXCEPT !.mod_stack = SubSeq(@, 1, Len(@) - 1)]

\* pop_scope that pops nothing
pop_scope_none(self) == self

\* Defined on a non-empty stack; the empty stack is the panic of Exit.
pop_scope(self) ==
  LET popped == back(self.mod_stack)
  IN [self EXCEPT !.mod_stack = SubSeq(@, 1, Len(@) - 1),
                  !.scope_mods = @ \ Range(popped.mods)]


----------------------------------------------------------------------------
(* Syntax tree nodes (syn).                                                *)

\* syn::UseTree
UseName(ident)           == [t |-> "Name", ident |-> ident]
UseRename(ident, rename) == [t |-> "Rename", ident |-> ident, rename |-> rename]
UseGlob                  == [t |-> "Glob"]
UsePath(ident, tree)     == [t |-> "Path", ident |-> ident, tree |-> tree]
UseGroup(items)          == [t |-> "Group", items |-> items]

\* proc_macro2::TokenTree
TokIdent(ident)          == [tt |-> "Ident", ident |-> ident]
TokGroup(delim, stream)  == [tt |-> "Group", delimiter |-> delim, stream |-> stream]

\* syn::Attribute; path is the sequence of its segments' idents
Attribute(style, path, tokens) == [style |-> style, path |-> path, tokens |-> tokens]

\* syn::Path, as the sequence of its segments' idents
Path(segments) == [segments |-> segments]

token_stream_single_item(stream) ==
  IF Len(stream) = 1 THEN Some(stream[1]) ELSE None

----------------------------------------------------------------------------
(* The Visit handlers.                                                     *)

\* visit_path that classifies the first segment of every path
visit_path_every(self, node) == add_import(self, node.segments[1])

visit_path(self, node) ==
  IF Len(node.segments) > 1 THEN add_import(self, node.segments[1]) ELSE self

\* visit::visit_attribute visits the attribute's path
RECURSIVE visit_attrs(_, _)
visit_attrs(self, attrs) ==
  IF attrs = <<>> THEN self
  ELSE visit_attrs(visit_path(self, Path(Head(attrs).path)), Tail(attrs))

\* visit_use_name that declares nothing
visit_use_name_nothing(self, node) == self

visit_use_name(self, node) == add_mod(self, node.ident)

visit_use_rename(self, node) ==
  add_mod(add_import(self, node.ident), node.rename)

\* the `for tree in &group.items` loop of visit_use_path
RECURSIVE self_items(_, _, _)
self_items(self, ident, items) ==
  IF items = <<>> THEN self
  ELSE LET tree == Head(items)
           s1 == IF tree.t = "Name" /\ tree.ident = IdSelf
                 THEN add_mod(self, ident) ELSE self
       IN self_items(s1, ident, Tail(items))

RECURSIVE visit_use_tree(_, _), visit_use_group(_, _)
visit_use_path(self, node) ==
  LET s1 == IF node.tree.t = "Group"
            THEN self_items(self, node.ident, node.tree.items)
            ELSE self
  IN visit_use_tree(s1, node.tree)

visit_use_group(self, items) ==
  IF items = <<>> THEN self
  ELSE visit_use_group(visit_use_tree(self, Head(items)), Tail(items))

visit_use_tree(self, tree) ==
  CASE tree.t = "Name"   -> visit_use_name(self, tree)
    [] tree.t = "Rename" -> visit_use_rename(self, tree)
    [] tree.t = "Path"   -> visit_use_path(self, tree)
    [] tree.t = "Group"  -> visit_use_group(self, tree.items)
    [] OTHER             -> self

visit_item_use(self, tree) ==
  LET s1 == CASE tree.t = "Path" -> add_import(self, tree.ident)
              [] tree.t = "Name" -> add_import(self, tree.ident)
              [] OTHER           -> self
  IN visit_use_tree(s1, tree)

\* visit_item_extern_crate that also declares the crate's name
visit_item_extern_crate_declares(self, ident) ==
  add_mod(add_import(self, ident), ident)

visit_item_extern_crate(self, ident) == add_import(self, ident)

\* the #[cfg(test)] test of visit_item_mod
mod_is_test_only(attrs) ==
  \E i \in DOMAIN attrs :
    /\ attrs[i].style = "Outer"
    /\ Len(attrs[i].path) = 1
    /\ attrs[i].path[1] = IdCfg
    /\ \E group \in token_stream_single_item(attrs[i].tokens) :
         /\ group.tt = "Group"
         /\ group.delimiter = "Parenthesis"
         /\ \E ident \in token_stream_single_item(group.stream) :
              ident.tt = "Ident" /\ ident.ident = IdTest

\* visit_item_mod that declares the name in the module's own frame
enter_item_mod_own_frame(self, node) ==
  visit_attrs(add_mod(push_scope(self, mod_is_test_only(node.attrs)), node.ident),
              node.attrs)

\* visit_item_mod up to the visit of the module's content
enter_item_mod(self, node) ==
  visit_attrs(push_scope(add_mod(self, node.ident), mod_is_test_only(node.attrs)),
              node.attrs)

\* the attribute loop of visit_item_fn
fn_attr_named(attrs, name) ==
  \E i \in DOMAIN attrs :
    attrs[i].style = "Outer" /\ Len(attrs[i].path) = 1 /\ attrs[i].path[1] = name

fn_is_main(self, node) == is_root_scope(self) /\ node.ident = IdMain

fn_is_test_only(self, node) ==
  IF fn_is_main(self, node) THEN FALSE ELSE fn_attr_named(node.attrs, IdTest)

fn_hints(self, node) ==
  IF fn_is_main(self, node)
  THEN [self.hints EXCEPT !.has_main = TRUE]
  ELSE [self.hints EXCEPT
          !.has_test = @ \/ fn_attr_named(node.attrs, IdTest),
          !.has_proc_macro = @ \/ fn_attr_named(node.attrs, IdProcMacro)]

\* visit_item_fn up to the visit of the signature and the body
enter_item_fn(self, node) ==
  visit_attrs(push_scope([self EXCEPT !.hints = fn_hints(self, node)],
                         fn_is_test_only(self, node)),
              node.attrs)

----------------------------------------------------------------------------
(* parse_imports after the traversal.                                      *)

\* Ident::to_string: the identifier's text
to_string(ident) == ident

\* the orders in which a HashSet may be collected into a Vec
Vecs(S) ==
  {v \in [1..Cardinality(S) -> S] : \A i, j \in DOMAIN v : v[i] = v[j] => i = j}

\* the names filter_imports keeps
filter_map(imports) ==
  {to_string(ident) : ident \in
     {i \in imports : IF Len(to_string(i)) > 0
                      THEN is_lowercase(Head(to_string(i))) ELSE FALSE}}

\* the Vecs filter_imports may return
filter_imports(imports) == Vecs(filter_map(imports))

\* no difference taken
difference_none(a, b) == a

difference(a, b) == a \ b

\* the RustImports parse_imports may return for a visitor
RustImports(self) ==
  LET test_imports == difference(self.test_imports, self.imports)
  IN {[hints |-> self.hints, imports |-> i, test_imports |-> t] :
        i \in filter_imports(self.imports), t \in filter_imports(test_imports)}

----------------------------------------------------------------------------
(* The nodes a file may hold.                                              *)

AttrTest         == Attribute("Outer", <<IdTest>>, <<>>)
AttrInnerTest    == Attribute("Inner", <<IdTest>>, <<>>)
AttrProcMacro    == Attribute("Outer", <<IdProcMacro>>, <<>>)
AttrPathTest     == Attribute("Outer", <<IdLower, IdTest>>, <<>>)
AttrCfgTest      == Attribute("Outer", <<IdCfg>>,
                              <<TokGroup("Parenthesis", <<TokIdent(IdTest)>>)>>)
AttrInnerCfgTest == Attribute("Inner", <<IdCfg>>,
                              <<TokGroup("Parenthesis", <<TokIdent(IdTest)>>)>>)
AttrCfgNotTest   == Attribute("Outer", <<IdCfg>>,
                              <<TokGroup("Parenthesis",
                                  <<TokIdent(IdNot),
                                    TokGroup("Parenthesis", <<TokIdent(IdTest)>>)>>)>>)
AttrCfgBracket   == Attribute("Outer", <<IdCfg>>,
                              <<TokGroup("Bracket", <<TokIdent(IdTest)>>)>>)

\* The files of Spec: every attribute form, two recordable names.
FnAttrs  == {<<>>, <<AttrTest>>, <<AttrProcMacro, AttrTest>>, <<AttrProcMacro>>,
             <<AttrPathTest>>, <<AttrInnerTest>>, <<AttrCfgTest>>}
ModAttrs == {<<>>, <<AttrCfgTest>>, <<AttrInnerCfgTest>>, <<AttrCfgNotTest>>,
             <<AttrCfgBracket>>, <<AttrTest>>}

ItemFns  == [ident : {IdMain, IdFn}, attrs : FnAttrs]
ItemMods == [ident : {IdLower}, attrs : ModAttrs]

Paths == {Path(<<IdLower>>), Path(<<IdLower, IdFn>>),
          Path(<<IdUpper, IdLower>>), Path(<<IdCrate, IdLower>>)}

ExternCrates == {IdLower, IdUpper}

UseTrees == {UsePath(IdLower, UseGlob), UsePath(IdCrate, UseName(IdLower))}

\* The files of SpecUse: every use-declaration form, plain attributes.
\* Here IdOther is declared by renamed and self-bringing imports only.
UseItemFns  == [ident : {IdFn}, attrs : {<<>>}]
UseItemMods == [ident : {IdLower, IdUpper}, attrs : {<<>>, <<AttrCfgTest>>}]

UsePaths == {Path(<<IdOther>>), Path(<<IdOther, IdFn>>)}

UseExternCrates == {IdOther}

UseUseTrees ==
  {UseName(IdLower),                                    \* use a;
   UsePath(IdLower, UseName(IdUpper)),                  \* use a::B;
   UseRename(IdLower, IdOther),                         \* use a as b;
   UsePath(IdLower, UseRename(IdOther, IdUpper)),       \* use a::b as B;
   UsePath(IdLower, UsePath(IdOther,                    \* use a::b::{self, *};
           UseGroup(<<UseName(IdSelf), UseGlob>>))),
   UseGroup(<<UseRename(IdLower, IdOther),              \* use {a as b, b as a};
              UseRename(IdOther, IdLower)>>)}

\* an outer attribute `#[test]`
carries_test(node) == \E i \in DOMAIN node.attrs : node.attrs[i] = AttrTest

\* an outer attribute `#[cfg(test)]`
carries_cfg_test(node) == \E i \in DOMAIN node.attrs : node.attrs[i] = AttrCfgTest

----------------------------------------------------------------------------
(* The walk.                                                               *)

\* an open node: its kind and whether it carries #[test] (a function) or
\* #[cfg(test)] (a module)
Open(kind, marked) == [kind |-> kind, marked |-> marked]

NoNode == [op |-> "none"]

Init ==
  /\ visitor = AstVisitorDefault
  /\ open = <<>>
  /\ last = NoNode
  /\ pc = "visiting"
  /\ result = [hints |-> Hints, imports |-> <<>>, test_imports |-> <<>>]
  /\ root_main = FALSE
  /\ nodes = MaxNodes

\* the kind of the innermost open node
Inside == IF open = <<>> THEN "file" ELSE back(open).kind

\* items stand in a file, a module or a block; a function item holds its
\* attributes, its signature and its body block
ItemsAllowed == Inside # "fn"

CanOpen(max) == Len(open) < max

VisitItemUse(trees) ==
  /\ pc = "visiting" /\ ItemsAllowed
  /\ \E tree \in trees :
       /\ visitor' = visit_item_use(visitor, tree)
       /\ last' = [op |-> "use", tree |-> tree]
  /\ UNCHANGED <<open, pc, result, root_main>>

VisitItemExternCrate(idents) ==
  /\ pc = "visiting" /\ ItemsAllowed
  /\ \E ident \in idents :
       /\ visitor' = visit_item_extern_crate(visitor, ident)
       /\ last' = [op |-> "extern_crate", ident |-> ident]
  /\ UNCHANGED <<open, pc, result, root_main>>

VisitPath(paths) ==
  /\ pc = "visiting"
  /\ \E node \in paths :
       /\ visitor' = visit_path(visitor, node)
       /\ last' = [op |-> "path", segments |-> node.segments,
                    closed |-> IF last.op = "exit" THEN last.mods ELSE <<>>]
  /\ UNCHANGED <<open, pc, result, root_main>>

EnterBlock(max) ==
  /\ pc = "visiting" /\ CanOpen(max)
  /\ visitor' = push_scope(visitor, FALSE)
  /\ open' = Append(open, Open("block", FALSE))
  /\ last' = [op |-> "block"]
  /\ UNCHANGED <<pc, result, root_main>>

EnterItemMod(mods, max) ==
  /\ pc = "visiting" /\ ItemsAllowed /\ CanOpen(max)
  /\ \E node \in mods :
       /\ visitor' = enter_item_mod(visitor, node)
       /\ open' = Append(open, Open("mod", carries_cfg_test(node)))
       /\ last' = [op |-> "mod", ident |-> node.ident, attrs |-> node.attrs]
  /\ UNCHANGED <<pc, result, root_main>>

EnterItemFn(fns, max) ==
  /\ pc = "visiting" /\ ItemsAllowed /\ CanOpen(max)
  /\ \E node \in fns :
       /\ visitor' = enter_item_fn(visitor, node)
       /\ open' = Append(open, Open("fn", carries_test(node)))
       /\ last' = [op |-> "fn", ident |-> node.ident, attrs |-> node.attrs]
       /\ root_main' = (root_main \/ (open = <<>> /\ node.ident = IdMain))
  /\ UNCHANGED <<pc, result>>

\* the pop_scope that ends visit_block, visit_item_mod and visit_item_fn
Exit(kind) ==
  /\ pc = "visiting" /\ open # <<>> /\ back(open).kind = kind
  /\ open' = SubSeq(open, 1, Len(open) - 1)
  /\ IF visitor.mod_stack = <<>>
     THEN pc' = "panic" /\ last' = NoNode /\ UNCHANGED visitor
     ELSE /\ pc' = pc
          /\ visitor' = pop_scope(visitor)
          /\ last' = [op |-> "exit", mods |-> back(visitor.mod_stack).mods]
  /\ UNCHANGED <<result, root_main>>

ExitBlock   == Exit("block")
ExitItemMod == Exit("mod")
ExitItemFn  == Exit("fn")

\* visit_file has returned: parse_imports builds its result
Return ==
  /\ pc = "visiting" /\ open = <<>>
  /\ result' \in RustImports(visitor)
  /\ pc' = "done"
  /\ last' = NoNode
  /\ UNCHANGED <<visitor, open, root_main>>

Next ==
  \/ VisitItemUse(UseTrees) /\ UNCHANGED nodes
  \/ VisitItemExternCrate(ExternCrates) /\ UNCHANGED nodes
  \/ VisitPath(Paths) /\ UNCHANGED nodes
  \/ EnterBlock(MaxDepth) /\ UNCHANGED nodes
  \/ EnterItemMod(ItemMods, MaxDepth) /\ UNCHANGED nodes
  \/ EnterItemFn(ItemFns, MaxDepth) /\ UNCHANGED nodes
  \/ ExitBlock /\ UNCHANGED nodes
  \/ ExitItemMod /\ UNCHANGED nodes
  \/ ExitItemFn /\ UNCHANGED nodes
  \/ Return /\ UNCHANGED nodes

Spec == Init /\ [][Next]_vars

NextUse ==
  \/ VisitItemUse(UseUseTrees) /\ UNCHANGED nodes
  \/ VisitItemExternCrate(UseExternCrates) /\ UNCHANGED nodes
  \/ VisitPath(UsePaths) /\ UNCHANGED nodes
  \/ EnterBlock(MaxUseDepth) /\ UNCHANGED nodes
  \/ EnterItemMod(UseItemMods, MaxUseDepth) /\ UNCHANGED nodes
  \/ EnterItemFn(UseItemFns, MaxUseDepth) /\ UNCHANGED nodes
  \/ ExitBlock /\ UNCHANGED nodes
  \/ ExitItemMod /\ UNCHANGED nodes
  \/ ExitItemFn /\ UNCHANGED nodes
  \/ Return /\ UNCHANGED nodes

SpecUse == Init /\ [][NextUse]_vars

\* The files of SpecFinite: at most MaxNodes nodes.
FiniteItemFns  == [ident : {IdMain, IdFn}, attrs : {<<>>, <<AttrTest>>}]
FiniteItemMods == [ident : {IdLower}, attrs : {<<>>, <<AttrCfgTest>>}]
FinitePaths == {Path(<<IdLower, IdFn>>)}
FiniteExternCrates == {IdLower}
FiniteUseTrees == {UsePath(IdLower, UseGlob), UseRename(IdLower, IdOther)}

\* the walker reaches one more node of the file
Reach == nodes > 0 /\ nodes' = nodes - 1

NextFinite ==
  \/ Reach /\ VisitItemUse(FiniteUseTrees)
  \/ Reach /\ VisitItemExternCrate(FiniteExternCrates)
  \/ Reach /\ VisitPath(FinitePaths)
  \/ Reach /\ EnterBlock(MaxDepth)
  \/ Reach /\ EnterItemMod(FiniteItemMods, MaxDepth)
  \/ Reach /\ EnterItemFn(FiniteItemFns, MaxDepth)
  \/ ExitBlock /\ UNCHANGED nodes
  \/ ExitItemMod /\ UNCHANGED nodes
  \/ ExitItemFn /\ UNCHANGED nodes
  \/ Return /\ UNCHANGED nodes

\* visit_file and parse_imports are sequential code that nothing suspends:
\* the walk takes its next step whenever it has one
SpecFinite == Init /\ [][NextFinite]_vars /\ WF_vars(NextFinite)

----------------------------------------------------------------------------
(* Vocabulary of the properties.                                           *)

imports      == visitor.imports
test_imports == visitor.test_imports
mod_stack    == visitor.mod_stack
scope_mods   == visitor.scope_mods

\* the names a step inserts into either import set
Inserted == (visitor'.imports \cup visitor'.test_imports) \ (imports \cup test_imports)

LowercaseLeading(name) == name[1] \in LowercaseChars

\* some frame of the stack is test-only
UnderTestOnly == \E i \in DOMAIN mod_stack : mod_stack[i].is_test_only

\* the step pops the top frame
Pops == Len(visitor'.mod_stack) = Len(mod_stack) - 1

\* the step visits a path of more than one segment whose first segment is
\* neither `crate` nor shadowed
FreshReference ==
  /\ last'.op = "path"
  /\ Len(last'.segments) > 1
  /\ last'.segments[1] # IdCrate
  /\ last'.segments[1] \notin scope_mods

----------------------------------------------------------------------------
\* C1 as stated: the two result sets are disjoint, and a name recorded both
\* in a non-test-only scope and in a test-only scope ends up in imports and
\* not in test_imports.
C1_Original ==
  pc = "done" =>
    /\ Range(result.imports) \cap Range(result.test_imports) = {}
    /\ \A n \in imports \cap test_imports :
         n \in Range(result.imports) /\ n \notin Range(result.test_imports)

\* C1 as amended: the two result sets are disjoint, and a name recorded in
\* both kinds of scope never ends up in test_imports; it ends up in imports
\* exactly when its first character is lowercase.
C1_Amended ==
  pc = "done" =>
    /\ Range(result.imports) \cap Range(result.test_imports) = {}
    /\ \A n \in imports \cap test_imports :
         /\ n \notin Range(result.test_imports)
         /\ n \in Range(result.imports) <=> LowercaseLeading(n)

C1_Witness ==
  /\ pc = "done"
  /\ IdLower \in imports \cap test_imports
  /\ IdLower \in Range(result.imports)

----------------------------------------------------------------------------
C2_Inherited ==
  \A i, j \in DOMAIN mod_stack :
    i < j /\ mod_stack[i].is_test_only => mod_stack[j].is_test_only

C2_Frozen ==
  \A i \in DOMAIN mod_stack \cap DOMAIN visitor'.mod_stack :
    visitor'.mod_stack[i].is_test_only = mod_stack[i].is_test_only

C2_Recorded ==
  UnderTestOnly =>
    /\ visitor'.imports = imports
    /\ FreshReference => last'.segments[1] \in visitor'.test_imports
    /\ last'.op = "extern_crate" /\ last'.ident \notin scope_mods
         => last'.ident \in visitor'.test_imports

\* C2: a test-only frame has only test-only frames above it, a frame's flag
\* never changes while it is on the stack, and while some frame of the stack
\* is test-only every recorded reference goes into test_imports and none
\* into imports.
C2_TestOnlyInherited ==
  []C2_Inherited /\ [][C2_Frozen /\ C2_Recorded]_vars

C2_Witness ==
  /\ \E i \in DOMAIN mod_stack :
       mod_stack[i].is_test_only /\ Len(mod_stack) >= i + 2
  /\ last.op = "path"
  /\ Len(last.segments) > 1
  /\ last.segments[1] \in test_imports \ imports

----------------------------------------------------------------------------
\* a name shadowed before and after the step is inserted into neither set
C3_ShadowedStep ==
  \A n \in scope_mods \cap visitor'.scope_mods : n \notin Inserted

\* in `use {x as y, y as z};` the reference to y follows its declaration
C3_ShadowedInGroup ==
  (/\ last'.op = "use"
   /\ last'.tree.t = "Group"
   /\ Len(last'.tree.items) = 2
   /\ last'.tree.items[1].t = "Rename"
   /\ last'.tree.items[2].t = "Rename"
   /\ last'.tree.items[2].ident = last'.tree.items[1].rename
   /\ last'.tree.items[1].ident # last'.tree.items[1].rename)
  => last'.tree.items[1].rename \notin Inserted

\* C3: once a name is declared (by a renamed import, a self-bringing group
\* import or otherwise) and for as long as it stays in the Shadow Set, no
\* visit inserts it into imports or test_imports.
C3_DeclaredNotRecorded == [][C3_ShadowedStep /\ C3_ShadowedInGroup]_vars

\* b was declared by `use a as b;` or `use a::b::{self, *};` in the file's
\* scope, and b::f has just been visited in a nested scope
C3_Witness ==
  /\ Len(mod_stack) >= 2
  /\ IdOther \in Range(mod_stack[1].mods)
  /\ last.op = "path"
  /\ last.segments = <<IdOther, IdFn>>
  /\ IdOther \notin imports \cup test_imports

----------------------------------------------------------------------------
\* the popped frame's names, and no others, leave the Shadow Set
C4_PopExact ==
  Pops =>
    /\ visitor'.scope_mods = scope_mods \ Range(back(mod_stack).mods)
    /\ Range(back(mod_stack).mods) \cap visitor'.scope_mods = {}
    /\ \A i \in DOMAIN visitor'.mod_stack :
         Range(visitor'.mod_stack[i].mods) \subseteq visitor'.scope_mods

\* a reference to an unshadowed name lands in the bucket of the top frame
C4_FreshBucket ==
  FreshReference =>
    IF back(mod_stack).is_test_only
    THEN /\ last'.segments[1] \in visitor'.test_imports
         /\ visitor'.imports = imports
    ELSE /\ last'.segments[1] \in visitor'.imports
         /\ visitor'.test_imports = test_imports

\* C4: pop_scope removes from the Shadow Set exactly the names of the frame
\* it pops, and a multi-segment reference to a name that is no longer
\* shadowed is recorded in the bucket of the scope current at that moment.
C4_ShadowRemoval == [][C4_PopExact /\ C4_FreshBucket]_vars

\* b::f visited right after the scope that declared b closed, while
\* another name is still shadowed
C4_Witness ==
  /\ last.op = "path"
  /\ last.segments = <<IdOther, IdFn>>
  /\ IdOther \in Range(last.closed)
  /\ IdOther \notin scope_mods
  /\ scope_mods # {}
  /\ IdOther \in imports

----------------------------------------------------------------------------
\* a module item declares its name in the frame that was on top
C5_DeclaredInEnclosing ==
  last'.op = "mod" =>
    LET d == Len(mod_stack)
        n == last'.ident
    IN /\ Len(visitor'.mod_stack) = d + 1
       /\ back(visitor'.mod_stack).mods = <<>>
       /\ n \in visitor'.scope_mods
       /\ \E i \in 1..d : n \in Range(visitor'.mod_stack[i].mods)
       /\ n \notin scope_mods =>
            visitor'.mod_stack[d].mods = Append(mod_stack[d].mods, n)

\* a pop leaves the frames below, and the names they declared, as they were
C5_KeptBelow ==
  Pops =>
    /\ visitor'.mod_stack = SubSeq(mod_stack, 1, Len(mod_stack) - 1)
    /\ \A i \in DOMAIN visitor'.mod_stack :
         Range(mod_stack[i].mods) \subseteq visitor'.scope_mods

\* `use a::thing;` where a is a declared module records nothing for a
C5_ModuleShadows ==
  (last'.op = "use" /\ last'.tree.t = "Path" /\ last'.tree.ident \in scope_mods)
  => last'.tree.ident \notin Inserted

\* C5: a module item declares the module's name in the enclosing frame,
\* the name stays shadowed through the module's own pop until the enclosing
\* frame is popped, and a use path starting with it records nothing.
C5_ModuleName ==
  [][C5_DeclaredInEnclosing /\ C5_KeptBelow /\ C5_ModuleShadows]_vars

\* `mod a; mod B { use a::B; }` at the visit of the use declaration
C5_Witness ==
  /\ Len(open) = 1 /\ open[1].kind = "mod"
  /\ mod_stack[1].mods = <<IdLower, IdUpper>>
  /\ last.op = "use"
  /\ last.tree = UsePath(IdLower, UseName(IdUpper))
  /\ IdLower \notin imports \cup test_imports

----------------------------------------------------------------------------
\* some open function item carries an outer #[test]
InTestFn == \E i \in DOMAIN open : open[i].kind = "fn" /\ open[i].marked

\* C6 as stated: visiting a function item that carries an outer #[test],
\* at any depth, sets has_test, and what is recorded inside it goes into
\* test_imports and not into imports.
C6_TestFn ==
  [][/\ (last'.op = "fn" /\ back(open').marked) => visitor'.hints.has_test
     /\ InTestFn => visitor'.imports = imports]_vars

----------------------------------------------------------------------------
\* C7: has_main is true, during the walk and in the result, exactly when a
\* function item named main was visited directly in the file.
C7_HasMain ==
  /\ visitor.hints.has_main = root_main
  /\ pc = "done" => result.hints.has_main = root_main

\* fn main stood directly in the file and the result says so
C7_Witness ==
  /\ pc = "done"
  /\ root_main
  /\ result.hints.has_main

----------------------------------------------------------------------------
\* C8: the result holds exactly the recorded names that begin with a
\* lowercase character: imports those of the normal set, test_imports those
\* of the test-only set that are not in the normal set.
C8_LowercaseOnly ==
  pc = "done" =>
    /\ \A n \in Range(result.imports) \cup Range(result.test_imports) :
         LowercaseLeading(n)
    /\ Range(result.imports) = {n \in imports : LowercaseLeading(n)}
    /\ Range(result.test_imports) =
         {n \in test_imports \ imports : LowercaseLeading(n)}

C8_Witness ==
  /\ pc = "done"
  /\ IdUpper \in imports
  /\ IdUpper \in test_imports
  /\ IdLower \in test_imports \ imports
  /\ result.imports = <<>>
  /\ result.test_imports = <<IdLower>>

----------------------------------------------------------------------------
\* the step visits `use x;` or `use p::x;`
PlainUseName ==
  /\ last'.op = "use"
  /\ \/ last'.tree.t = "Name"
     \/ last'.tree.t = "Path" /\ last'.tree.tree.t = "Name"

\* the plain name of the declaration the step visits
PlainName ==
  IF last'.tree.t = "Name" THEN last'.tree.ident ELSE last'.tree.tree.ident

SameMods ==
  /\ visitor'.scope_mods = scope_mods
  /\ Len(visitor'.mod_stack) = Len(mod_stack)
  /\ \A i \in DOMAIN mod_stack : visitor'.mod_stack[i].mods = mod_stack[i].mods

\* C9 as stated: a non-renamed use name leaves the Shadow Set and every
\* frame's list of local names unchanged.
C9_Original == [][PlainUseName => SameMods]_vars

\* C9 as amended: a non-renamed use name declares its name in the current
\* scope unless the name is shadowed already: it is in the Shadow Set after
\* the visit, appended to the top frame's list when it was not shadowed, and
\* the frames below are unchanged; the Shadow Set grows in visits of use
\* declarations and module items only.
C9_Amended ==
  [][/\ PlainUseName =>
          /\ PlainName \in visitor'.scope_mods
          /\ Len(visitor'.mod_stack) = Len(mod_stack)
          /\ PlainName \notin scope_mods =>
               /\ back(visitor'.mod_stack).mods = Append(back(mod_stack).mods, PlainName)
               /\ visitor'.scope_mods = scope_mods \cup {PlainName}
          /\ \A i \in 1..(Len(mod_stack) - 1) :
               visitor'.mod_stack[i] = mod_stack[i]
     /\ ~(visitor'.scope_mods \subseteq scope_mods) => last'.op \in {"use", "mod"}]_vars

\* `use a;` has just declared a in a nested scope
C9_Witness ==
  /\ last.op = "use"
  /\ last.tree = UseName(IdLower)
  /\ Len(mod_stack) >= 2
  /\ IdLower \in Range(back(mod_stack).mods)
  /\ IdLower \in imports

----------------------------------------------------------------------------
\* C10 as stated: of a use declaration whose tree starts with a path, only
\* the first path segment is classified, so no other name of it is inserted
\* into imports or test_imports.
C10_FirstSegmentOnly ==
  [][(last'.op = "use" /\ last'.tree.t = "Path")
       => Inserted \subseteq {last'.tree.ident}]_vars

----------------------------------------------------------------------------
\* the step visits a reference whose classified name is `crate`: a path
\* `crate::...` or a use declaration `use crate::...;`
CrateReference ==
  \/ last'.op = "path" /\ Len(last'.segments) > 1 /\ last'.segments[1] = IdCrate
  \/ last'.op = "use" /\ last'.tree.t = "Path" /\ last'.tree.ident = IdCrate

C11_NeverRecorded ==
  /\ IdCrate \notin imports \cup test_imports
  /\ pc = "done" => IdCrate \notin Range(result.imports) \cup Range(result.test_imports)

\* C11: a reference to `crate` changes neither import set and raises no
\* error, and `crate` is never in imports or test_imports, during the walk
\* or in the result.
C11_CrateIgnored ==
  /\ []C11_NeverRecorded
  /\ [][CrateReference =>
          /\ visitor'.imports = imports
          /\ visitor'.test_imports = test_imports
          /\ pc' = "visiting"]_vars

\* crate::a has just been visited in a test-only scope with `a` unshadowed
\* and nothing recorded
C11_Witness ==
  /\ last.op = "path"
  /\ last.segments = <<IdCrate, IdLower>>
  /\ is_test_only_scope(visitor)
  /\ scope_mods = {}
  /\ imports \cup test_imports = {}

----------------------------------------------------------------------------
\* `extern crate x;` is classified as a reference: nothing when x is
\* shadowed, else x goes into the bucket of the current scope
C12_Classified ==
  last'.op = "extern_crate" =>
    LET x == last'.ident
    IN IF x \in scope_mods
       THEN visitor'.imports = imports /\ visitor'.test_imports = test_imports
       ELSE IF back(mod_stack).is_test_only
            THEN /\ visitor'.test_imports = test_imports \cup {x}
                 /\ visitor'.imports = imports
            ELSE /\ visitor'.imports = imports \cup {x}
                 /\ visitor'.test_imports = test_imports

\* `extern crate x;` has no scope implications
C12_NoScope ==
  last'.op = "extern_crate" =>
    /\ visitor'.mod_stack = mod_stack
    /\ visitor'.scope_mods = scope_mods
    /\ visitor'.hints = visitor.hints

\* a file whose only recorded reference is a lowercase-leading name in the
\* normal set has that name as its imports and no test_imports
C12_Scenario ==
  (pc' = "done" /\ imports = {IdLower} /\ test_imports = {})
  => result'.imports = <<IdLower>> /\ result'.test_imports = <<>>

\* C12: `extern crate x;` classifies x as a reference is classified (shadow
\* check, then the bucket of the current scope) and changes neither the
\* scope stack nor the Shadow Set; `extern crate a;` in the file's scope
\* with no other reference gives imports {a} and test_imports {}.
C12_ExternCrate == [][C12_Classified /\ C12_NoScope /\ C12_Scenario]_vars

\* `extern crate a;` has just been visited in the file's scope, nothing
\* else is recorded or declared
C12_Witness ==
  /\ last.op = "extern_crate"
  /\ last.ident = IdLower
  /\ open = <<>>
  /\ imports = {IdLower}
  /\ test_imports = {}
  /\ scope_mods = {}

----------------------------------------------------------------------------
\* C13: the scope stack is never empty and its bottom is the root frame
\* created at the start; its depth is 1 plus the number of open block,
\* module and function nodes (each has pushed one frame and will pop one);
\* pop_scope never finds the stack empty; and when the traversal has ended
\* the stack holds the root frame only.
C13_StackDepth ==
  /\ mod_stack # <<>>
  /\ ~mod_stack[1].is_test_only
  /\ Len(mod_stack) = 1 + Len(open)
  /\ pc # "panic"
  /\ pc = "done" => Len(mod_stack) = 1 /\ open = <<>>

\* the last open node has just exited: the frame it pushed is popped and
\* the root frame alone is left
C13_Witness ==
  /\ last.op = "exit"
  /\ last.mods # <<>>
  /\ open = <<>>
  /\ Len(mod_stack) = 1

----------------------------------------------------------------------------
\* the places (frame, position) where a name stands in the frames' lists
Places(n) ==
  {p \in (DOMAIN mod_stack) \X (1..Cardinality(scope_mods) + 1) :
     p[2] \in DOMAIN mod_stack[p[1]].mods /\ mod_stack[p[1]].mods[p[2]] = n}

\* C14: the Shadow Set is the union of the lists of local names of the
\* frames on the scope stack, and every shadowed name stands in exactly one
\* frame's list, exactly once.
C14_ShadowSetIsUnion ==
  /\ scope_mods = UNION {Range(mod_stack[i].mods) : i \in DOMAIN mod_stack}
  /\ \A i \in DOMAIN mod_stack : Len(mod_stack[i].mods) <= Cardinality(scope_mods)
  /\ \A n \in scope_mods : Cardinality(Places(n)) = 1

\* three frames on the stack, each with a declared name of its own
C14_Witness ==
  /\ Len(mod_stack) = 3
  /\ \A i \in DOMAIN mod_stack : mod_stack[i].mods # <<>>
  /\ Cardinality(scope_mods) = 3

----------------------------------------------------------------------------
\* the step visits a declaration of exactly one name: `mod x`, `use x;` or
\* `use p::x;`
DeclaresOne == last'.op = "mod" \/ PlainUseName

DeclaredOne == IF last'.op = "mod" THEN last'.ident ELSE PlainName

\* the declaration of a name that is shadowed already changes neither the
\* Shadow Set nor the list of any frame that was on the stack
C15_Redeclared ==
  (DeclaresOne /\ DeclaredOne \in scope_mods) =>
    /\ visitor'.scope_mods = scope_mods
    /\ \A i \in DOMAIN mod_stack : visitor'.mod_stack[i].mods = mod_stack[i].mods
    /\ \A i \in DOMAIN visitor'.mod_stack \ DOMAIN mod_stack :
         visitor'.mod_stack[i].mods = <<>>

\* a pop ends the shadow of the names the popped frame declared first, and
\* of no name a frame below declared
C15_FirstWins ==
  Pops =>
    \A n \in scope_mods :
      n \in visitor'.scope_mods <=>
        \E i \in 1..(Len(mod_stack) - 1) : n \in Range(mod_stack[i].mods)

\* C15: add_mod of a name that is in the Shadow Set changes neither the
\* top frame's list nor the Shadow Set; the first declaration wins: a name
\* re-declared in an inner scope stays shadowed when the inner scope is
\* popped, until the scope that declared it first is popped.
C15_FirstDeclarationWins == [][C15_Redeclared /\ C15_FirstWins]_vars

\* a was declared in a scope other than the file's; `use crate::a;` has
\* just re-declared it in a scope nested in that one
C15_Witness ==
  /\ last.op = "use"
  /\ last.tree = UsePath(IdCrate, UseName(IdLower))
  /\ Len(mod_stack) >= 3
  /\ IdLower \in Range(mod_stack[2].mods)
  /\ back(mod_stack).mods = <<>>
  /\ scope_mods = {IdLower}

----------------------------------------------------------------------------
\* the step is one call of add_import and nothing else: a path of more
\* than one segment, `extern crate x;` or `use x::*;`
OneAddImport ==
  \/ last'.op = "path" /\ Len(last'.segments) > 1
  \/ last'.op = "extern_crate"
  \/ last'.op = "use" /\ last'.tree.t = "Path" /\ last'.tree.tree.t = "Glob"

\* the name that call is given
AddImportIdent ==
  CASE last'.op = "path"         -> last'.segments[1]
    [] last'.op = "extern_crate" -> last'.ident
    [] OTHER                     -> last'.tree.ident

\* C16: add_import of a name that is neither `crate` nor shadowed inserts
\* it into test_imports when the top frame is test-only and into imports
\* otherwise, and leaves the other set as it was; whatever the name,
\* add_import leaves the scope stack, the Shadow Set and the hints as they
\* were.
C16_AddImport ==
  [][OneAddImport =>
       /\ visitor'.mod_stack = mod_stack
       /\ visitor'.scope_mods = scope_mods
       /\ visitor'.hints = visitor.hints
       /\ (AddImportIdent # IdCrate /\ AddImportIdent \notin scope_mods) =>
            IF back(mod_stack).is_test_only
            THEN /\ visitor'.test_imports = test_imports \cup {AddImportIdent}
                 /\ visitor'.imports = imports
            ELSE /\ visitor'.imports = imports \cup {AddImportIdent}
                 /\ visitor'.test_imports = test_imports]_vars

\* a::f has just been recorded in a test-only scope while the normal set
\* holds another name and not a
C16_Witness ==
  /\ last.op = "path"
  /\ last.segments = <<IdLower, IdFn>>
  /\ back(mod_stack).is_test_only
  /\ IdLower \notin scope_mods
  /\ test_imports = {IdLower}
  /\ imports = {IdUpper}

----------------------------------------------------------------------------
\* the function or module item the step enters carries an outer #[test] or
\* an outer #[cfg(test)]
EntersTestItem ==
  /\ last'.op \in {"fn", "mod"}
  /\ carries_test(last') \/ carries_cfg_test(last')

\* C17 as stated: a frame is test-only exactly when its scope is behind
\* #[test] or #[cfg(test)].  Frame by frame: the root frame is not; the
\* frame of a function or module item is, exactly when the item carries an
\* outer #[test] or #[cfg(test)] or the enclosing frame is test-only; the
\* frame of a block is, exactly when the enclosing frame is.
C17_BehindTest ==
  /\ ~mod_stack[1].is_test_only
  /\ [][/\ last'.op \in {"fn", "mod"} =>
             (back(visitor'.mod_stack).is_test_only
                <=> (back(mod_stack).is_test_only \/ EntersTestItem))
        /\ last'.op = "block" =>
             (back(visitor'.mod_stack).is_test_only <=> back(mod_stack).is_test_only)]_vars

----------------------------------------------------------------------------
\* C18: the visit of a path of one segment changes neither import set;
\* the visit of a path of more than one segment classifies its first
\* segment and no later one: it inserts no other name, and it inserts the
\* first segment exactly when that is neither `crate` nor shadowed.
C18_PathFirstSegment ==
  [][last'.op = "path" =>
       IF Len(last'.segments) = 1
       THEN visitor'.imports = imports /\ visitor'.test_imports = test_imports
       ELSE /\ Inserted \subseteq {last'.segments[1]}
            /\ (imports \cup test_imports) \subseteq
                 (visitor'.imports \cup visitor'.test_imports)
            /\ FreshReference =>
                 last'.segments[1] \in visitor'.imports \cup visitor'.test_imports
            /\ ~FreshReference =>
                 visitor'.imports = imports /\ visitor'.test_imports = test_imports]_vars

\* B::a has just been visited with nothing shadowed: B is recorded and a,
\* its second segment, is not
C18_Witness ==
  /\ last.op = "path"
  /\ last.segments = <<IdUpper, IdLower>>
  /\ scope_mods = {}
  /\ imports \cup test_imports = {IdUpper}

----------------------------------------------------------------------------
\* the end state of parse_imports: the result is built and every frame
\* pushed during the walk has been popped
Ended == pc = "done" /\ open = <<>> /\ Len(mod_stack) = 1

\* C19: the traversal of a finite tree terminates: every step reaches a
\* node not reached before or leaves an open one, and the walk comes to
\* its end state, where all pushed scopes are popped and the result is
\* produced.
C19_Terminates ==
  /\ [][pc = "visiting" => (nodes' < nodes \/ Len(open') < Len(open) \/ pc' = "done")]_vars
  /\ <>Ended

\* the end of a file whose MaxNodes nodes were all visited
C19_Witness == Ended /\ nodes = 0

----------------------------------------------------------------------------
\* C20: no step of the walk removes a name from imports or test_imports,
\* whatever it declares, pushes or pops, so a name recorded before its
\* declaration stays recorded; parse_imports takes the difference and the
\* filter of the sets as the walk left them.
C20_OnlyGrow ==
  [][/\ imports \subseteq visitor'.imports
     /\ test_imports \subseteq visitor'.test_imports
     /\ pc' = "done" => visitor' = visitor]_vars

\* a is recorded and is declared in the file's scope, whose frame is never
\* popped: the reference came before the declaration
C20_Witness ==
  /\ IdLower \in imports
  /\ IdLower \in Range(mod_stack[1].mods)
  /\ last.op = "mod"
  /\ last.ident = IdLower
  /\ Len(open) = 1

============================================================================
